---- MODULE Spec2Model ----
(***************************************************************************)
(* grafanalib: the layout balancer that runs when a Row is constructed,    *)
(* and the panel-id assigner Dashboard.auto_panel_ids, modelled from       *)
(* src/src/grafanalib/core.py.                                             *)
(*                                                                         *)
(* Python's Optional[T] is modelled as a sequence of length at most one:   *)
(* None is <<>> and a value v is <<v>>.                                    *)
(***************************************************************************)
EXTENDS Integers, Sequences, FiniteSets, TLC

VARIABLES
    vizs,       \* the list of visualizations given to the most recent Row(...) call
    row,        \* the Row value the caller holds (None before construction)
    args,       \* per row, the visualization lists Dashboard's rows are built from
    dashboard,  \* the Dashboard value the caller holds (None before construction)
    receiver,   \* the Dashboard value the most recent method was called on
    input,      \* the argument of a library function called on its own
    output,     \* what that call returned or raised (None before the call)
    op          \* the most recent operation

vars == <<vizs, row, args, dashboard, receiver, input, output, op>>

(***************************************************************************)
(* Bounds of the model.                                                    *)
(***************************************************************************)
MaxBalLen == 3      \* longest visualization list given to a stand-alone Row
MaxRows   == 2      \* most rows of a dashboard
MaxPanels == 3      \* most panels of a dashboard, over all its rows

(***************************************************************************)
(* Optional values.                                                        *)
(***************************************************************************)
None == <<>>
Some(v) == <<v>>
Val(o) == o[1]

\* Python truthiness of an Optional[int]: None and 0 are false.
Truthy(o) == o # None /\ Val(o) # 0

TOTAL_SPAN == 12

(***************************************************************************)
(* Value types.  Every field the attrs classes declare with a default      *)
(* carries that default.                                                   *)
(***************************************************************************)
Panel(title, id, span) ==
    [title |-> title, id |-> id, span |-> span, transparent |-> FALSE,
     editable |-> TRUE, links |-> <<>>, height |-> None, description |-> None]

\* A visualization: a value with a panel attribute (Graph, Text, ...).
Viz(type, panel) == [type |-> type, panel |-> panel]

\* attr.evolve(panel, span=s), attr.evolve(panel, id=i), attr.evolve(viz, panel=p)
evolve_span(panel, s) == [panel EXCEPT !.span = s]
evolve_id(panel, i) == [panel EXCEPT !.id = i]
evolve_panel(viz, p) == [viz EXCEPT !.panel = p]

(***************************************************************************)
(* math.ceil(a / b) for a divisor b >= 1 and any integer a.                *)
(***************************************************************************)
FloorDiv(a, b) == a \div b
CeilDivPlusOne(a, b) == (a \div b) + 1
CeilDiv(a, b) == -((-a) \div b)

(***************************************************************************)
(* _balance_panels                                                         *)
(***************************************************************************)
\* panel.span if panel.span else 0
span_or_zero(panel) == IF Truthy(panel.span) THEN Val(panel.span) ELSE 0

RECURSIVE allotted_spans(_)
allotted_spans(panels) ==
    IF panels = <<>> THEN 0
    ELSE span_or_zero(Head(panels)) + allotted_spans(Tail(panels))

no_span_set(panels) == SelectSeq(panels, LAMBDA p : p.span = None)

\* len(no_span_set) or 1
len_or_one(s) == IF Len(s) # 0 THEN Len(s) ELSE 1

auto_span(panels) ==
    CeilDiv(TOTAL_SPAN - allotted_spans(panels), len_or_one(no_span_set(panels)))

balance_resize_all(panels) ==
    [k \in 1..Len(panels) |-> evolve_span(panels[k], Some(auto_span(panels)))]
balance_drop_id(panels) ==
    [k \in 1..Len(panels) |->
        IF panels[k].span = None
        THEN evolve_span(Panel(panels[k].title, None, None), Some(auto_span(panels)))
        ELSE panels[k]]
_balance_panels(panels) ==
    [k \in 1..Len(panels) |->
        IF panels[k].span = None
        THEN evolve_span(panels[k], Some(auto_span(panels)))
        ELSE panels[k]]

(***************************************************************************)
(* _balance_visualizations: the converter of Row.panels                    *)
(***************************************************************************)
Min(a, b) == IF a <= b THEN a ELSE b

_balance_visualizations(vs) ==
    LET panels == _balance_panels([k \in 1..Len(vs) |-> vs[k].panel])
    IN  [k \in 1..Min(Len(vs), Len(panels)) |-> evolve_panel(vs[k], panels[k])]

(***************************************************************************)
(* Row                                                                     *)
(***************************************************************************)
DEFAULT_ROW_HEIGHT == 250

\* Row(panels=vs, title=title): the converter balances the panels.
Row(vs, title) ==
    [panels |-> _balance_visualizations(vs), collapse |-> FALSE, editable |-> TRUE,
     height |-> DEFAULT_ROW_HEIGHT, showTitle |-> None, title |-> title,
     repeat |-> None]

\* attr.evolve(row, panels=vs): __init__ runs again, and with it the converter.
Row_evolve_no_convert(r, vs) == [r EXCEPT !.panels = vs]
Row_evolve(r, vs) == [r EXCEPT !.panels = _balance_visualizations(vs)]

Row_iter_panels(r) == [k \in 1..Len(r.panels) |-> r.panels[k].panel]

(***************************************************************************)
(* The callables given to map_panels.  A callable is named by a string and *)
(* carries the state of its closure: for set_id, the set ids and the       *)
(* position of itertools.count(1) inside the generator auto_ids.           *)
(***************************************************************************)
\* next(auto_ids), auto_ids = (i for i in itertools.count(1) if i not in ids)
next_auto_id_no_filter(ids, count) == count
RECURSIVE next_auto_id(_, _)
next_auto_id(ids, count) ==
    IF count \notin ids THEN count ELSE next_auto_id(ids, count + 1)

set_id_always(st, panel) ==
    LET i == next_auto_id(st.ids, st.count)
    IN  [panel |-> evolve_id(panel, Some(i)), st |-> [st EXCEPT !.count = i + 1]]
set_id_none_only(st, panel) ==
    IF panel.id # None THEN [panel |-> panel, st |-> st]
    ELSE LET i == next_auto_id(st.ids, st.count)
         IN  [panel |-> evolve_id(panel, Some(i)), st |-> [st EXCEPT !.count = i + 1]]
set_id_no_advance(st, panel) ==
    IF Truthy(panel.id) THEN [panel |-> panel, st |-> st]
    ELSE [panel |-> evolve_id(panel, Some(next_auto_id(st.ids, st.count))), st |-> st]
set_id_fresh_panel(st, panel) ==
    IF Truthy(panel.id) THEN [panel |-> panel, st |-> st]
    ELSE LET i == next_auto_id(st.ids, st.count)
         IN  [panel |-> Panel(panel.title, Some(i), None),
              st |-> [st EXCEPT !.count = i + 1]]
set_id(st, panel) ==
    IF Truthy(panel.id) THEN [panel |-> panel, st |-> st]
    ELSE LET i == next_auto_id(st.ids, st.count)
         IN  [panel |-> evolve_id(panel, Some(i)), st |-> [st EXCEPT !.count = i + 1]]

\* Two callables a caller may pass: one keeps every span, one unsets it.
retitle(st, panel) == [panel |-> [panel EXCEPT !.title = "renamed"], st |-> st]
clear_span(st, panel) == [panel |-> evolve_span(panel, None), st |-> st]

UserF == {"retitle", "clear_span"}

call(f, st, panel) ==
    CASE f = "set_id" -> set_id(st, panel)
      [] f = "retitle" -> retitle(st, panel)
      [] f = "clear_span" -> clear_span(st, panel)

\* map(f, panels), consumed from left to right.
RECURSIVE map(_, _, _)
map(f, st, panels) ==
    IF panels = <<>> THEN [out |-> <<>>, st |-> st]
    ELSE LET first == call(f, st, Head(panels))
             rest == map(f, first.st, Tail(panels))
         IN  [out |-> <<first.panel>> \o rest.out, st |-> rest.st]

(***************************************************************************)
(* Row.map_panels                                                          *)
(***************************************************************************)
Row_map_panels(r, f, st) ==
    LET panels == map(f, st, Row_iter_panels(r))
        with_panels == [k \in 1..Min(Len(r.panels), Len(panels.out)) |->
                           evolve_panel(r.panels[k], panels.out[k])]
    IN  [row |-> Row_evolve(r, with_panels), st |-> panels.st]

(***************************************************************************)
(* Dashboard                                                               *)
(***************************************************************************)
Dashboard(title, rows) ==
    [title |-> title, rows |-> rows, editable |-> TRUE, refresh |-> "10s",
     timezone |-> "utc"]

RECURSIVE Dashboard_iter_panels_from(_)
Dashboard_iter_panels_from(rows) ==
    IF rows = <<>> THEN <<>>
    ELSE Row_iter_panels(Head(rows)) \o Dashboard_iter_panels_from(Tail(rows))

Dashboard_iter_panels(d) == Dashboard_iter_panels_from(d.rows)

\* [r.map_panels(f) for r in self.rows]
RECURSIVE map_rows(_, _, _)
map_rows(f, st, rows) ==
    IF rows = <<>> THEN [out |-> <<>>, st |-> st]
    ELSE LET first == Row_map_panels(Head(rows), f, st)
             rest == map_rows(f, first.st, Tail(rows))
         IN  [out |-> <<first.row>> \o rest.out, st |-> rest.st]

Dashboard_map_panels(d, f, st) == [d EXCEPT !.rows = map_rows(f, st, d.rows).out]

NoState == [ids |-> {}, count |-> 1]

auto_panel_ids(d) ==
    LET all == Dashboard_iter_panels(d)
        ids == {Val(all[k].id) : k \in {j \in 1..Len(all) : Truthy(all[j].id)}}
    IN  Dashboard_map_panels(d, "set_id", [ids |-> ids, count |-> 1])

(***************************************************************************)
(* SpecBalance: a caller builds one Row from a list of visualizations and  *)
(* rebuilds it.  The spans range over None and 1..TOTAL_SPAN.              *)
(***************************************************************************)
BalanceSpans == {None} \cup {Some(s) : s \in 1..TOTAL_SPAN}

BalanceVizs ==
    {Viz("Graph", Panel("cpu", None, s)) : s \in BalanceSpans}
        \cup {Viz("Text", Panel("mem", Some(5), s)) : s \in BalanceSpans}

BalanceInputs == UNION {[1..n -> BalanceVizs] : n \in 0..MaxBalLen}

InitBalance ==
    /\ vizs \in BalanceInputs
    /\ row = None
    /\ args = <<>>
    /\ dashboard = None
    /\ receiver = None
    /\ input = None
    /\ output = None
    /\ op = "init"

\* row = Row(panels=vizs)
NewRow ==
    /\ row = None
    /\ row' = Some(Row(vizs, None))
    /\ op' = "Row"
    /\ UNCHANGED <<vizs, args, dashboard, receiver, input, output>>

\* row = attr.evolve(row): every field goes through __init__ again
RowRebuild ==
    /\ row # None
    /\ row' = Some(Row_evolve(Val(row), Val(row).panels))
    /\ op' = "evolve"
    /\ UNCHANGED <<vizs, args, dashboard, receiver, input, output>>

NextBalance == NewRow \/ RowRebuild

SpecBalance == InitBalance /\ [][NextBalance]_vars

(***************************************************************************)
(* Spec: a caller prepares the visualization lists of the rows, builds the *)
(* Dashboard from them and then calls its methods in any order.            *)
(***************************************************************************)
IdChoices == {None, Some(0), Some(2), Some(5)}

DashVizs ==
    {Viz("Graph", Panel("cpu", i, None)) : i \in IdChoices}
        \cup {Viz("Text", Panel("mem", None, Some(8)))}

RECURSIVE TotalLen(_)
TotalLen(lists) == IF lists = <<>> THEN 0 ELSE Len(Head(lists)) + TotalLen(Tail(lists))

Init ==
    /\ vizs = <<>>
    /\ row = None
    /\ args = <<>>
    /\ dashboard = None
    /\ receiver = None
    /\ input = None
    /\ output = None
    /\ op = "init"

\* The caller starts the visualization list of one more row.
ArgRow ==
    /\ dashboard = None
    /\ Len(args) < MaxRows
    /\ args' = Append(args, <<>>)
    /\ UNCHANGED <<vizs, row, dashboard, receiver, op, input, output>>

\* The caller puts one more visualization into the list of the last row.
ArgViz ==
    /\ dashboard = None
    /\ args # <<>>
    /\ TotalLen(args) < MaxPanels
    /\ \E v \in DashVizs :
          args' = [args EXCEPT ![Len(args)] = Append(@, v)]
    /\ UNCHANGED <<vizs, row, dashboard, receiver, op, input, output>>

\* dashboard = Dashboard(title="d", rows=[Row(panels=a) for a in args])
NewDashboard ==
    /\ dashboard = None
    /\ dashboard' = Some(Dashboard("d", [k \in 1..Len(args) |-> Row(args[k], None)]))
    /\ op' = "Dashboard"
    /\ UNCHANGED <<vizs, row, args, receiver, input, output>>

\* dashboard = dashboard.auto_panel_ids()
AutoPanelIds ==
    /\ dashboard # None
    /\ receiver' = dashboard
    /\ dashboard' = Some(auto_panel_ids(Val(dashboard)))
    /\ op' = "auto_panel_ids"
    /\ UNCHANGED <<vizs, row, args, input, output>>

\* dashboard = dashboard.map_panels(f)
MapPanels ==
    /\ dashboard # None
    /\ \E f \in UserF :
          /\ dashboard' = Some(Dashboard_map_panels(Val(dashboard), f, NoState))
          /\ op' = f
    /\ receiver' = dashboard
    /\ UNCHANGED <<vizs, row, args, input, output>>

\* dashboard = attr.evolve(dashboard, rows=[attr.evolve(r) for r in dashboard.rows])
EvolveRows ==
    /\ dashboard # None
    /\ receiver' = dashboard
    /\ dashboard' = Some([Val(dashboard) EXCEPT !.rows =
                            [k \in 1..Len(@) |-> Row_evolve(@[k], @[k].panels)]])
    /\ op' = "evolve"
    /\ UNCHANGED <<vizs, row, args, input, output>>

Next == ArgRow \/ ArgViz \/ NewDashboard \/ AutoPanelIds \/ MapPanels \/ EvolveRows

Spec == Init /\ [][Next]_vars

(***************************************************************************)
(* Plain document values.  A value of a rendered document is tagged with   *)
(* its Python type: None, bool, int, str, list, dict, or the instance of a *)
(* class of the library.  A dict is a function from its keys.              *)
(***************************************************************************)
Null == [t |-> "null"]
Bool(b) == [t |-> "bool", b |-> b]
Num(n) == [t |-> "num", n |-> n]
Str(s) == [t |-> "str", s |-> s]
List(items) == [t |-> "list", items |-> items]
Dict(m) == [t |-> "dict", m |-> m]
Obj(cls, fields) == [t |-> "object", cls |-> cls, fields |-> fields]

EmptyDict == [k \in {} |-> Null]

(***************************************************************************)
(* union                                                                   *)
(***************************************************************************)
\* ret.update(d)
dict_update_keep(ret, d) ==
    [k \in DOMAIN ret \cup DOMAIN d |-> IF k \in DOMAIN ret THEN ret[k] ELSE d[k]]
dict_update(ret, d) ==
    [k \in DOMAIN ret \cup DOMAIN d |-> IF k \in DOMAIN d THEN d[k] ELSE ret[k]]

\* for d in dicts: ret.update(d)
RECURSIVE update_all(_, _)
update_all(ret, dicts) ==
    IF dicts = <<>> THEN ret
    ELSE update_all(dict_update(ret, Head(dicts)), Tail(dicts))

union(dicts) ==
    IF dicts = <<>> THEN EmptyDict
    ELSE update_all(Head(dicts), Tail(dicts))

(***************************************************************************)
(* SpecUnion: union called on a list of maps.  The values are null, a      *)
(* number and two nested maps with different keys.                         *)
(***************************************************************************)
MaxDicts == 3       \* longest list of maps given to union

UnionInputs ==
    LET UnionKeys == {"x", "y"}
        UnionValues == {Null, Num(1), Dict([a |-> Num(1)]), Dict([b |-> Num(2)])}
        UnionDicts == UNION {[S -> UnionValues] : S \in SUBSET UnionKeys}
    IN  UNION {[1..n -> UnionDicts] : n \in 0..MaxDicts}

InitUnion ==
    /\ vizs = <<>>
    /\ row = None
    /\ args = <<>>
    /\ dashboard = None
    /\ receiver = None
    /\ input \in UnionInputs
    /\ output = None
    /\ op = "init"

\* output = union(input)
CallUnion ==
    /\ op = "init"
    /\ output' = union(input)
    /\ op' = "union"
    /\ UNCHANGED <<vizs, row, args, dashboard, receiver, input>>

SpecUnion == InitUnion /\ [][CallUnion]_vars

(***************************************************************************)
(* Value objects and their to_json_data.  An instance is Obj(cls, fields); *)
(* the fields of a Panel, a visualization, a Row and a Dashboard are the   *)
(* records defined above, the fields of every other class hold document    *)
(* values.  to_json_data is shallow: it puts the field values, instances   *)
(* included, into the map it returns.                                      *)
(***************************************************************************)
OptNum(o) == IF o = None THEN Null ELSE Num(Val(o))
OptStr(o) == IF o = None THEN Null ELSE Str(Val(o))

\* Members of the Enum classes: to_json_data returns self.value.
EnumClasses ==
    {"TooltipValueType", "NullPointMode", "Renderer", "DashboardStyle", "NumberFormat",
     "AlertRuleState", "TextMode", "Transform", "AlertListShow", "SortOrder",
     "MappingType", "ValueType"}
Enum(cls, value) == Obj(cls, [value |-> value])

\* RGBA(r, g, b, a), RGB(r, g, b), Pixels(num); a float is held as its repr.
RGBA(r, g, b, a) == Obj("RGBA", [r |-> r, g |-> g, b |-> b, a |-> a])
RGB(r, g, b) == Obj("RGB", [r |-> r, g |-> g, b |-> b])
Pixels(num) == Obj("Pixels", [num |-> num])

\* [GREEN, ORANGE, RED]
DefaultColors ==
    List(<<RGBA(50, 172, 45, "0.97"), RGBA(237, 129, 40, "0.89"), RGBA(245, 54, 54, "0.9")>>)

Panel_to_json_data_with_error(p) ==
    [title |-> Str(p.title), id |-> OptNum(p.id), links |-> List(p.links),
     span |-> OptNum(p.span), transparent |-> Bool(p.transparent),
     editable |-> Bool(p.editable), height |-> OptNum(p.height),
     description |-> OptStr(p.description), error |-> Bool(FALSE)]
Panel_to_json_data(p) ==
    [title |-> Str(p.title), id |-> OptNum(p.id), links |-> List(p.links),
     span |-> OptNum(p.span), transparent |-> Bool(p.transparent),
     editable |-> Bool(p.editable), height |-> OptNum(p.height),
     description |-> OptStr(p.description)]

\* Grid(), with the colors GREY1 and GREY2; Legend(); Tooltip()
Grid ==
    Obj("Grid", [threshold1 |-> Null, threshold1Color |-> RGBA(216, 200, 27, "0.27"),
                 threshold2 |-> Null, threshold2Color |-> RGBA(234, 112, 112, "0.22")])
Legend ==
    Obj("Legend", [avg |-> FALSE, current |-> FALSE, max |-> FALSE, min |-> FALSE,
                   show |-> TRUE, total |-> FALSE, values |-> Null,
                   alignAsTable |-> FALSE, hideEmpty |-> FALSE, hideZero |-> FALSE,
                   rightSide |-> FALSE, sideWidth |-> Null, sort |-> Null,
                   sortDesc |-> FALSE])
Tooltip ==
    Obj("Tooltip", [msResolution |-> TRUE, shared |-> TRUE, sort |-> Num(0),
                    valueType |-> Enum("TooltipValueType", Str("cumulative"))])

XAxis(mode, name, values, show) ==
    Obj("XAxis", [mode |-> mode, name |-> name, values |-> values, show |-> show])
XAxis_to_json_data(f) == [show |-> Bool(f.show)]

\* YAxis(format=NumberFormat.SHORT, label=label); YAxes(left, right)
YAxis(label) ==
    Obj("YAxis", [decimals |-> Null, format |-> Enum("NumberFormat", Str("short")),
                  label |-> label, logBase |-> Num(1), max |-> Null, min |-> Num(0),
                  show |-> TRUE])
YAxes(left, right) == Obj("YAxes", [left |-> left, right |-> right])

Alert(name) ==
    Obj("Alert", [name |-> Str(name), message |-> Str("message"),
                  alertConditions |-> List(<<>>),
                  executionErrorState |-> Enum("AlertRuleState", Str("alerting")),
                  frequency |-> Str("60s"), handler |-> Num(1),
                  noDataState |-> Enum("AlertRuleState", Str("no_data")),
                  notifications |-> List(<<>>)])

Gauge ==
    Obj("Gauge", [minValue |-> Num(0), maxValue |-> Num(100), show |-> Bool(FALSE),
                  thresholdLabels |-> Bool(FALSE), thresholdMarkers |-> Bool(TRUE)])

\* SparkLine(), with the colors BLUE_RGBA and BLUE_RGB
SparkLine ==
    Obj("SparkLine", [fillColor |-> RGBA(31, 118, 189, "0.18"), full |-> Bool(FALSE),
                      lineColor |-> RGB(31, 120, 193), show |-> Bool(FALSE)])

\* ColumnStyle(alias, pattern, type) and the instances of the style types
\* DateColumnStyleType(), NumberColumnStyleType(), HiddenColumnStyleType();
\* the alias and the pattern are strings.
ColumnStyle(alias, pattern, type) ==
    Obj("ColumnStyle", [alias |-> alias, pattern |-> pattern, type |-> type])
ColumnStyleType(cls) ==
    CASE cls = "DateColumnStyleType" -> Obj(cls, [dateFormat |-> Str("YYYY-MM-DD HH:mm:ss")])
      [] cls = "NumberColumnStyleType" ->
            Obj(cls, [colorMode |-> Null, colors |-> DefaultColors,
                      thresholds |-> List(<<>>), decimals |-> Num(2),
                      unit |-> Enum("NumberFormat", Str("short"))])
      [] cls = "HiddenColumnStyleType" -> Obj(cls, EmptyDict)

\* Column(text, value); both are strings.
Column(text, value) == Obj("Column", [text |-> text, value |-> value])

(***************************************************************************)
(* The visualizations.  A visualization record holds its type, its panel   *)
(* and, when the caller gave them, further fields; a field the record      *)
(* lacks has the default of the class (an empty list or text for a field   *)
(* without default).                                                       *)
(***************************************************************************)
Field(v, name, default) == IF name \in DOMAIN v THEN v[name] ELSE default

Text_object(v) ==
    [content |-> Field(v, "content", Str("")), error |-> Bool(FALSE),
     mode |-> Enum("TextMode", Str("markdown"))]

AlertList_object(v) ==
    [limit |-> Num(10), onlyAlertsOnDashboard |-> Bool(TRUE),
     show |-> Enum("AlertListShow", Str("current")),
     sortOrder |-> Enum("SortOrder", Num(1)), stateFilter |-> List(<<>>)]

graph_object(v) ==
    [aliasColors |-> Dict(EmptyDict), bars |-> Bool(FALSE),
     datasource |-> Field(v, "dataSource", Null), error |-> Bool(FALSE), fill |-> Num(1),
     grid |-> Grid, isNew |-> Bool(TRUE), legend |-> Legend, lines |-> Bool(TRUE),
     linewidth |-> Num(2), minSpan |-> Null,
     nullPointMode |-> Enum("NullPointMode", Str("connected")),
     percentage |-> Bool(FALSE), pointradius |-> Num(5), points |-> Bool(FALSE),
     renderer |-> Enum("Renderer", Str("flot")), repeat |-> Null,
     seriesOverrides |-> List(<<>>), stack |-> Bool(FALSE), steppedLine |-> Bool(FALSE),
     targets |-> Field(v, "targets", List(<<>>)), timeFrom |-> Null, timeShift |-> Null,
     tooltip |-> Tooltip, xaxis |-> XAxis(Str("time"), Null, List(<<>>), TRUE),
     yaxes |-> Field(v, "yAxes", YAxes(YAxis(Null), YAxis(Null)))]

\* The truth value of `if self.alert`: None, False, zero and the empty text,
\* list and map are false; an instance of an attrs class is true.
truth(v) ==
    CASE v = Null -> FALSE
      [] v.t = "bool" -> v.b
      [] v.t = "num" -> v.n # 0
      [] v.t = "str" -> v.s # ""
      [] v.t \in {"list", "tuple"} -> v.items # <<>>
      [] v.t = "dict" -> DOMAIN v.m # {}
      [] OTHER -> TRUE

\* alerts = {"alert": self.alert} if self.alert else {}
graph_alerts_always(v) == [alert |-> Field(v, "alert", Null)]
graph_alerts(v) ==
    IF truth(Field(v, "alert", Null)) THEN [alert |-> v.alert] ELSE EmptyDict

\* mappingTypes holds MAPPING_VALUE_TO_TEXT and MAPPING_RANGE_TO_TEXT.
SingleStat_object(v) ==
    [cacheTimeout |-> Null, colorBackground |-> Bool(FALSE), colorValue |-> Bool(FALSE),
     colors |-> DefaultColors, datasource |-> Field(v, "dataSource", Null),
     decimals |-> Null, format |-> Str("none"), gauge |-> Gauge, interval |-> Null,
     hideTimeOverride |-> Bool(FALSE), mappingType |-> Enum("MappingType", Num(1)),
     mappingTypes |->
        List(<<Obj("Mapping", [name |-> Str("value to text"),
                               value |-> Enum("MappingType", Num(1))]),
               Obj("Mapping", [name |-> Str("range to text"),
                               value |-> Enum("MappingType", Num(2))])>>),
     maxDataPoints |-> Num(100), minSpan |-> Null, nullPointMode |-> Str("connected"),
     nullText |-> Null, postfix |-> Str(""), postfixFontSize |-> Str("50%"),
     prefix |-> Str(""), prefixFontSize |-> Str("50%"), rangeMaps |-> List(<<>>),
     repeat |-> Null, sparkline |-> SparkLine,
     targets |-> Field(v, "targets", List(<<>>)), thresholds |-> Str(""),
     valueFontSize |-> Str("80%"), valueMaps |-> List(<<>>),
     valueName |-> Enum("ValueType", Str("avg")), timeFrom |-> Null]

Table_styles_default ==
    <<ColumnStyle("Time", "time", ColumnStyleType("DateColumnStyleType")),
      ColumnStyle("", "/.*/", ColumnStyleType("NumberColumnStyleType"))>>

\* sort is ColumnSort()
Table_object(v) ==
    [columns |-> List(Field(v, "columns", <<>>)),
     datasource |-> Field(v, "dataSource", Null), fontSize |-> Str("100%"),
     hideTimeOverride |-> Bool(FALSE), minSpan |-> Null, pageSize |-> Null,
     repeat |-> Null, scroll |-> Bool(TRUE), showHeader |-> Bool(TRUE),
     sort |-> Obj("ColumnSort", [col |-> Null, desc |-> Bool(FALSE)]),
     styles |-> List(Field(v, "styles", Table_styles_default)),
     targets |-> Field(v, "targets", List(<<>>)), timeFrom |-> Null,
     transform |-> Enum("Transform", Str("timeseries_to_columns"))]

VizTypes == {"Graph", "Text", "AlertList", "SingleStat", "Table"}

\* The instance of a visualization record.
VizObj(v) == Obj(v.type, v)

\* Row.to_json_data: "height" holds the Pixels instance, "panels" the
\* visualizations themselves.
Row_to_json_data_title_only(r) ==
    [collapse |-> Bool(r.collapse), editable |-> Bool(r.editable),
     height |-> Pixels(r.height),
     panels |-> List([k \in DOMAIN r.panels |-> VizObj(r.panels[k])]),
     showTitle |-> Bool(r.title # None),
     title |-> IF r.title # None THEN Str(Val(r.title)) ELSE Str("New row"),
     repeat |-> OptStr(r.repeat)]
Row_to_json_data_iter(r) ==
    [collapse |-> Bool(r.collapse), editable |-> Bool(r.editable),
     height |-> Pixels(r.height),
     panels |-> Obj("generator", [k \in DOMAIN r.panels |-> VizObj(r.panels[k])]),
     showTitle |-> IF r.showTitle # None THEN Bool(Val(r.showTitle))
                   ELSE Bool(r.title # None),
     title |-> IF r.title # None THEN Str(Val(r.title)) ELSE Str("New row"),
     repeat |-> OptStr(r.repeat)]
Row_to_json_data(r) ==
    [collapse |-> Bool(r.collapse), editable |-> Bool(r.editable),
     height |-> Pixels(r.height),
     panels |-> List([k \in DOMAIN r.panels |-> VizObj(r.panels[k])]),
     showTitle |-> IF r.showTitle # None THEN Bool(Val(r.showTitle))
                   ELSE Bool(r.title # None),
     title |-> IF r.title # None THEN Str(Val(r.title)) ELSE Str("New row"),
     repeat |-> OptStr(r.repeat)]

Annotations == Obj("Annotations", [list |-> List(<<>>)])
Templating == Obj("Templating", [list |-> List(<<>>)])
DEFAULT_TIME == Obj("Time", [start |-> Str("now-1h"), end |-> Str("now")])
DEFAULT_TIME_PICKER ==
    Obj("TimePicker",
        [refreshIntervals |->
            List(<<Str("5s"), Str("10s"), Str("30s"), Str("1m"), Str("5m"), Str("15m"),
                   Str("30m"), Str("1h"), Str("2h"), Str("1d")>>),
         timeOptions |->
            List(<<Str("5m"), Str("15m"), Str("1h"), Str("6h"), Str("12h"), Str("24h"),
                   Str("2d"), Str("7d"), Str("30d")>>)])

\* Dashboard.to_json_data: the rows, the annotations, the style, the
\* templating, the time and the time picker are put in as they are.
Dashboard_to_json_data(d) ==
    [__inputs |-> List(<<>>), annotations |-> Annotations, editable |-> Bool(d.editable),
     gnetId |-> Null, hideControls |-> Bool(FALSE), id |-> Null, links |-> List(<<>>),
     refresh |-> Str(d.refresh),
     rows |-> List([k \in DOMAIN d.rows |-> Obj("Row", d.rows[k])]),
     schemaVersion |-> Num(12), sharedCrosshair |-> Bool(FALSE),
     style |-> Enum("DashboardStyle", Str("dark")), tags |-> List(<<>>),
     templating |-> Templating, title |-> Str(d.title), time |-> DEFAULT_TIME,
     timepicker |-> DEFAULT_TIME_PICKER, timezone |-> Str(d.timezone),
     version |-> Num(0), uid |-> Null]

\* The classes whose to_json_data is given below: those of the instances a
\* dashboard of Graph and Text visualizations holds, and the visualizations.
RenderedClasses ==
    VizTypes \cup EnumClasses \cup
    {"Row", "Dashboard", "Grid", "Legend", "Tooltip", "XAxis", "YAxis", "YAxes",
     "Annotations", "Templating", "Time", "TimePicker", "RGBA", "Pixels"}

\* o.to_json_data()
to_json_data(o) ==
    LET f == o.fields
    IN  CASE o.cls = "Graph" ->
                Dict(union(<<Panel_to_json_data(f.panel), graph_object(f), graph_alerts(f)>>))
          [] o.cls = "Text" -> Dict(union(<<Panel_to_json_data(f.panel), Text_object(f)>>))
          [] o.cls = "AlertList" ->
                Dict(union(<<Panel_to_json_data(f.panel), AlertList_object(f)>>))
          [] o.cls = "SingleStat" ->
                Dict(union(<<Panel_to_json_data(f.panel), SingleStat_object(f)>>))
          [] o.cls = "Table" -> Dict(union(<<Panel_to_json_data(f.panel), Table_object(f)>>))
          [] o.cls = "Row" -> Dict(Row_to_json_data(f))
          [] o.cls = "Dashboard" -> Dict(Dashboard_to_json_data(f))
          [] o.cls = "XAxis" -> Dict(XAxis_to_json_data(f))
          [] o.cls = "Grid" ->
                Dict([threshold1 |-> f.threshold1, threshold1Color |-> f.threshold1Color,
                      threshold2 |-> f.threshold2, threshold2Color |-> f.threshold2Color])
          [] o.cls = "Legend" ->
                Dict([avg |-> Bool(f.avg), current |-> Bool(f.current),
                      max |-> Bool(f.max), min |-> Bool(f.min), show |-> Bool(f.show),
                      total |-> Bool(f.total),
                      values |-> IF f.values = Null
                                 THEN Bool(f.avg \/ f.current \/ f.max \/ f.min)
                                 ELSE f.values,
                      alignAsTable |-> Bool(f.alignAsTable),
                      hideEmpty |-> Bool(f.hideEmpty), hideZero |-> Bool(f.hideZero),
                      rightSide |-> Bool(f.rightSide), sideWidth |-> f.sideWidth,
                      sort |-> f.sort, sortDesc |-> Bool(f.sortDesc)])
          [] o.cls = "Tooltip" ->
                Dict([msResolution |-> Bool(f.msResolution), shared |-> Bool(f.shared),
                      sort |-> f.sort, value_type |-> f.valueType])
          [] o.cls = "YAxis" ->
                Dict([decimals |-> f.decimals, format |-> f.format, label |-> f.label,
                      logBase |-> f.logBase, max |-> f.max, min |-> f.min,
                      show |-> Bool(f.show)])
          [] o.cls = "YAxes" -> List(<<f.left, f.right>>)
          [] o.cls \in {"Annotations", "Templating"} -> Dict([list |-> f.list])
          [] o.cls = "Time" -> Dict([from |-> f.start, to |-> f.end])
          [] o.cls = "TimePicker" ->
                Dict([refresh_intervals |-> f.refreshIntervals,
                      time_options |-> f.timeOptions])
          [] o.cls \in EnumClasses -> f.value
          [] o.cls = "RGBA" ->
                Str("rgba(" \o ToString(f.r) \o ", " \o ToString(f.g) \o ", "
                        \o ToString(f.b) \o ", " \o f.a \o ")")
          [] o.cls = "Pixels" -> Str(ToString(f.num) \o "px")

(***************************************************************************)
(* The document emitter serializes dashboard.to_json_data() with an        *)
(* encoder whose hook for a value that is no map, sequence or scalar calls *)
(* the value's to_json_data and encodes the result; a value without the    *)
(* method makes it raise TypeError.  encode gives the tree that is written. *)
(***************************************************************************)
TypeError == [t |-> "raise", exc |-> "TypeError"]

RECURSIVE encode(_)
encode(v) ==
    CASE v.t = "list" -> List([k \in DOMAIN v.items |-> encode(v.items[k])])
      [] v.t = "dict" -> Dict([k \in DOMAIN v.m |-> encode(v.m[k])])
      [] v.t = "object" ->
            IF v.cls \in RenderedClasses THEN encode(to_json_data(v)) ELSE TypeError
      [] OTHER -> v

(***************************************************************************)
(* The specification of rendering: the caller has a value object and calls *)
(* its to_json_data; the document of a dashboard is handed to the encoder. *)
(***************************************************************************)
RenderPanels == {Panel("cpu", i, s) : i \in {None, Some(1)}, s \in {None, Some(4)}}

\* The visualizations, Graphs with an alert, with alert=None and with an empty
\* alert among them; the XAxis values;
\* the rows, empty or of a Text and a Graph; the dashboards of these rows.
RenderInputs ==
    LET RenderVizs ==
            {Viz(ty, p) : ty \in VizTypes, p \in RenderPanels}
            \cup {[type |-> "Graph", panel |-> p, alert |-> a] :
                      p \in RenderPanels, a \in {Alert("a"), Null, Dict(EmptyDict)}}
        RenderXAxes ==
            {XAxis(mode, name, List(<<>>), show) :
                mode \in {Str("time"), Str("series")}, name \in {Null, Str("n")},
                show \in BOOLEAN}
        RenderRows ==
            {[Row(vs, title) EXCEPT !.showTitle = st] :
                vs \in {<<>>, <<Viz("Text", Panel("mem", None, Some(8))),
                               Viz("Graph", Panel("cpu", None, None))>>},
                title \in {None, Some(""), Some("My title")},
                st \in {None, Some(TRUE), Some(FALSE)}}
        RenderDashboards ==
            {Dashboard("d", rows) :
                rows \in {<<>>} \cup {<<r>> : r \in RenderRows}
                         \cup {<<r, Row(<<>>, None)>> : r \in RenderRows}}
    IN  {VizObj(v) : v \in RenderVizs} \cup RenderXAxes
        \cup {Obj("Row", r) : r \in RenderRows}
        \cup {Obj("Dashboard", d) : d \in RenderDashboards}

InitRender ==
    /\ vizs = <<>>
    /\ row = None
    /\ args = <<>>
    /\ dashboard = None
    /\ receiver = None
    /\ input \in RenderInputs
    /\ output = None
    /\ op = "init"

\* output = input.to_json_data()
ToJsonData ==
    /\ op = "init"
    /\ output' = to_json_data(input)
    /\ op' = "to_json_data"
    /\ UNCHANGED <<vizs, row, args, dashboard, receiver, input>>

\* write_dashboard(dashboard, stream): the emitter encodes the document.
Encode ==
    /\ op = "to_json_data"
    /\ input.cls = "Dashboard"
    /\ output' = encode(output)
    /\ op' = "encode"
    /\ UNCHANGED <<vizs, row, args, dashboard, receiver, input>>

NextRender == ToJsonData \/ Encode

SpecRender == InitRender /\ [][NextRender]_vars

(***************************************************************************)
(* Graph(yAxes=data): the converter to_y_axes, then the validator.  A call *)
(* gives [value, raised, warned]: the value returned if any, the exception *)
(* raised if any, and whether a DeprecationWarning was issued.             *)
(***************************************************************************)
Tuple(items) == [t |-> "tuple", items |-> items]

Returned(v, warned) == [value |-> Some(v), raised |-> "", warned |-> warned]
Raised(exc, warned) == [value |-> None, raised |-> exc, warned |-> warned]

isinstance(v, cls) == v.t = "object" /\ v.cls = cls

\* YAxes(left=left, right=right): both validators are instance_of(YAxis).
YAxes_init(left, right, warned) ==
    IF isinstance(left, "YAxis") /\ isinstance(right, "YAxis")
    THEN Returned(YAxes(left, right), warned)
    ELSE Raised("TypeError", warned)

to_y_axes_swapped(data) ==
    IF isinstance(data, "YAxes") THEN Returned(data, FALSE)
    ELSE IF data.t \notin {"list", "tuple"} THEN Raised("ValueError", FALSE)
    ELSE IF Len(data.items) # 2 THEN Raised("ValueError", FALSE)
    ELSE YAxes_init(data.items[2], data.items[1], TRUE)
to_y_axes(data) ==
    IF isinstance(data, "YAxes") THEN Returned(data, FALSE)
    ELSE IF data.t \notin {"list", "tuple"} THEN Raised("ValueError", FALSE)
    ELSE IF Len(data.items) # 2 THEN Raised("ValueError", FALSE)
    ELSE YAxes_init(data.items[1], data.items[2], TRUE)

\* Graph(panel=Panel("cpu"), targets=[], yAxes=data)
Graph_init(data) ==
    LET converted == to_y_axes(data)
    IN  IF converted.raised # "" THEN converted
        ELSE Returned([type |-> "Graph", panel |-> Panel("cpu", None, None),
                       yAxes |-> Val(converted.value)], converted.warned)

MaxAxes == 3

\* YAxes values; lists and tuples of up to MaxAxes elements, each a YAxis or
\* a number; values of other types.
YAxesInputs ==
    LET Axes == {YAxis(Null), YAxis(Str("right"))}
        AxisSeqs == UNION {[1..n -> Axes \cup {Num(1)}] : n \in 0..MaxAxes}
    IN  {YAxes(l, r) : l, r \in Axes}
        \cup {List(items) : items \in AxisSeqs} \cup {Tuple(items) : items \in AxisSeqs}
        \cup {Null, Str("left"), Num(2), Dict(EmptyDict), YAxis(Null)}

InitYAxes ==
    /\ vizs = <<>>
    /\ row = None
    /\ args = <<>>
    /\ dashboard = None
    /\ receiver = None
    /\ input \in YAxesInputs
    /\ output = None
    /\ op = "init"

\* output = Graph(..., yAxes=input), or the exception it raises
NewGraph ==
    /\ op = "init"
    /\ output' = Graph_init(input)
    /\ op' = "Graph"
    /\ UNCHANGED <<vizs, row, args, dashboard, receiver, input>>

SpecYAxes == InitYAxes /\ [][NewGraph]_vars

(***************************************************************************)
(* Table.with_styled_columns(columns, styles, panel=...).  columns is a    *)
(* sequence of pairs <<column, style>>, the style being Null for None;     *)
(* styles is Null or a list of extra styles.                               *)
(***************************************************************************)
\* The body of the loop for the styles: the styles to append for one pair, or
\* the exception.  attr.evolve(style, pattern=column.text) sets the pattern.
style_of_pair_unchanged(column, style) ==
    IF style = Null THEN Returned(<<>>, FALSE)
    ELSE IF style.fields.pattern # "" /\ style.fields.pattern # column.fields.text
    THEN Raised("ValueError", FALSE)
    ELSE Returned(<<style>>, FALSE)
style_of_pair(column, style) ==
    IF style = Null THEN Returned(<<>>, FALSE)
    ELSE IF style.fields.pattern # "" /\ style.fields.pattern # column.fields.text
    THEN Raised("ValueError", FALSE)
    ELSE Returned(<<ColumnStyle(style.fields.alias, column.fields.text,
                                style.fields.type)>>, FALSE)

\* The loop from the pair at the head of columns on, new_columns and styles
\* being the lists built so far.
RECURSIVE style_columns_loop(_, _, _)
style_columns_loop(columns, new_columns, styles) ==
    IF columns = <<>> THEN Returned([columns |-> new_columns, styles |-> styles], FALSE)
    ELSE LET column == Head(columns)[1]
             style == Head(columns)[2]
             one == style_of_pair(column, style)
         IN  IF one.raised # "" THEN one
             ELSE style_columns_loop(Tail(columns), Append(new_columns, column),
                                     styles \o Val(one.value))

_style_columns(columns) == style_columns_loop(columns, <<>>, <<>>)

Table_with_styled_columns(columns, styles, panel) ==
    LET extra_styles == IF styles = Null \/ styles.items = <<>> THEN <<>> ELSE styles.items
        styled == _style_columns(columns)
    IN  IF styled.raised # "" THEN styled
        ELSE Returned([type |-> "Table", panel |-> panel,
                       columns |-> Val(styled.value).columns,
                       styles |-> Val(styled.value).styles \o extra_styles], FALSE)

MaxColumns == 2

\* Up to MaxColumns pairs of a column and None or a style without pattern,
\* with the pattern "Foo" or with the pattern "Bar"; None, no or one extra
\* style.
TableInputs ==
    LET TableColumns == {Column("Foo", "foo"), Column("Bar", "bar")}
        TableStyles ==
            {Null, ColumnStyle("", "", ColumnStyleType("NumberColumnStyleType")),
             ColumnStyle("", "Foo", ColumnStyleType("NumberColumnStyleType")),
             ColumnStyle("hidden", "Bar", ColumnStyleType("HiddenColumnStyleType"))}
        TablePairs == UNION {[1..n -> TableColumns \X TableStyles] : n \in 0..MaxColumns}
        TableExtraStyles == {Null, List(<<>>), List(<<Table_styles_default[1]>>)}
    IN  [columns : TablePairs, styles : TableExtraStyles]

InitTable ==
    /\ vizs = <<>>
    /\ row = None
    /\ args = <<>>
    /\ dashboard = None
    /\ receiver = None
    /\ input \in TableInputs
    /\ output = None
    /\ op = "init"

\* output = Table.with_styled_columns(columns, styles, panel=Panel("table title"), ...)
WithStyledColumns ==
    /\ op = "init"
    /\ output' = Table_with_styled_columns(input.columns, input.styles,
                                           Panel("table title", None, None))
    /\ op' = "with_styled_columns"
    /\ UNCHANGED <<vizs, row, args, dashboard, receiver, input>>

SpecTable == InitTable /\ [][WithStyledColumns]_vars

(***************************************************************************)
(* Assignment to an attribute of an instance.  The classes are declared    *)
(* with @attr.s(frozen=True), whose __setattr__ raises FrozenInstanceError; *)
(* Gauge is declared with a plain @attr.s and takes the assignment.        *)
(***************************************************************************)
frozen(cls) == cls # "Gauge"

\* o.name = value: the instance afterwards and the exception raised if any.
setattr(o, name, value) ==
    IF frozen(o.cls)
    THEN [object |-> o, raised |-> "FrozenInstanceError"]
    ELSE [object |-> [o EXCEPT !.fields[name] = value], raised |-> ""]

\* The assignment statements: the instance, the attribute and the value.
Assignments ==
    LET AssignInstances ==
            {Obj("Panel", p) : p \in RenderPanels}
            \cup {VizObj(Viz(ty, Panel("cpu", None, None))) : ty \in VizTypes}
            \cup {Obj("Row", Row(<<>>, None)), Obj("Dashboard", Dashboard("d", <<>>)),
                  Gauge, SparkLine, Grid, Legend, Tooltip, Pixels(250), YAxis(Null),
                  DEFAULT_TIME, XAxis(Str("time"), Null, List(<<>>), TRUE),
                  YAxes(YAxis(Null), YAxis(Null))}
        AssignValues == {Null, Bool(TRUE), Num(7)}
    IN  UNION {{[object |-> o, name |-> name, value |-> value] :
                   name \in DOMAIN o.fields, value \in AssignValues} : o \in AssignInstances}

InitAssign ==
    /\ vizs = <<>>
    /\ row = None
    /\ args = <<>>
    /\ dashboard = None
    /\ receiver = None
    /\ input \in Assignments
    /\ output = None
    /\ op = "init"

\* input.object.name = input.value
SetAttr ==
    /\ op = "init"
    /\ output' = setattr(input.object, input.name, input.value)
    /\ op' = "setattr"
    /\ UNCHANGED <<vizs, row, args, dashboard, receiver, input>>

SpecAssign == InitAssign /\ [][SetAttr]_vars

(***************************************************************************)
(* The validators.  A string is the sequence of its characters.            *)
(***************************************************************************)
Digits == {"0", "1", "2", "3", "4", "5", "6", "7", "8", "9"}
HexDigits == Digits \cup {"a", "b", "c", "d", "e", "f", "A", "B", "C", "D", "E", "F"}

\* re.match(r"^[+-]?\d*[smhdMY]$", value) for a value of ASCII characters: the
\* sign if there is one, the digits, one unit letter, and then the end of the
\* string or a newline that ends the string.
re_match_interval(value) ==
    LET signed == value # <<>> /\ value[1] \in {"+", "-"}
        body == IF signed THEN Tail(value) ELSE value
        n == CHOOSE k \in 0..Len(body) :
                /\ \A i \in 1..k : body[i] \in Digits
                /\ k = Len(body) \/ body[k + 1] \notin Digits
        rest == SubSeq(body, n + 1, Len(body))
    IN  /\ rest # <<>>
        /\ rest[1] \in {"s", "m", "h", "d", "M", "Y"}
        /\ Tail(rest) \in {<<>>, <<"\n">>}

is_interval(value) ==
    IF ~re_match_interval(value) THEN Raised("ValueError", FALSE) ELSE Returned(Null, FALSE)

\* int(text, 16) succeeds: surrounding whitespace is stripped, a sign and a
\* prefix 0x or 0X (and one underscore after the prefix) are skipped, and what
\* is left is hexadecimal digits with single underscores between them.
int_base16(text) ==
    LET inked == {i \in 1..Len(text) : text[i] \notin {" ", "\t", "\n", "\r"}}
        first == CHOOSE i \in inked : \A j \in inked : i <= j
        last == CHOOSE i \in inked : \A j \in inked : j <= i
        stripped == IF inked = {} THEN <<>> ELSE SubSeq(text, first, last)
        unsigned == IF stripped # <<>> /\ stripped[1] \in {"+", "-"}
                    THEN Tail(stripped) ELSE stripped
        prefixed == /\ Len(unsigned) >= 2
                    /\ unsigned[1] = "0"
                    /\ unsigned[2] \in {"x", "X"}
        after == IF prefixed THEN SubSeq(unsigned, 3, Len(unsigned)) ELSE unsigned
        digits == IF prefixed /\ after # <<>> /\ after[1] = "_" THEN Tail(after) ELSE after
    IN  /\ digits # <<>>
        /\ \A i \in 1..Len(digits) : digits[i] \in HexDigits \cup {"_"}
        /\ digits[1] # "_" /\ digits[Len(digits)] # "_"
        /\ \A i \in 1..(Len(digits) - 1) : ~(digits[i] = "_" /\ digits[i + 1] = "_")

is_color_code(value) ==
    IF value = <<>> \/ value[1] # "#" THEN Raised("ValueError", FALSE)
    ELSE IF Len(value) # 7 THEN Raised("ValueError", FALSE)
    ELSE IF ~int_base16(Tail(value)) THEN Raised("ValueError", FALSE)
    ELSE Returned(Null, FALSE)

\* isinstance(el, etype) for the types int, str and bool; a bool is an int.
isinstance_of(el, etype) == el.t = etype \/ (el.t = "bool" /\ etype = "num")

\* is_list_of(etype)(inst, attribute, value): False in set(map(..., value))
is_list_of_any(etype, value) ==
    IF \A k \in DOMAIN value.items : ~isinstance_of(value.items[k], etype)
    THEN Raised("ValueError", FALSE) ELSE Returned(Null, FALSE)
is_list_of(etype, value) ==
    IF FALSE \in {isinstance_of(value.items[k], etype) : k \in DOMAIN value.items}
    THEN Raised("ValueError", FALSE) ELSE Returned(Null, FALSE)

MaxColorLen == 8
MaxIntervalLen == 4
MaxListLen == 3

\* The calls: a validator with the value it is given.  Color codes start with
\* "#" or a digit and go on with hexadecimal digits, "g" and "+"; intervals
\* are made of a sign, a digit, two unit letters, "x" and the newline; lists
\* and tuples hold numbers, strings, booleans and None.
ValidatorInputs ==
    LET Chars(head, tail, max) ==
            UNION {{s \in [1..n -> head \cup tail] : n > 0 => (s[1] \in head /\
                       \A i \in 2..n : s[i] \in tail)} : n \in 0..max}
        Colors == Chars({"#", "1"}, {"f", "g", "+"}, MaxColorLen)
        IntervalChars == {"+", "1", "h", "M", "x", "\n"}
        Intervals == Chars(IntervalChars, IntervalChars, MaxIntervalLen)
        Elems == UNION {[1..n -> {Num(1), Str("a"), Bool(TRUE), Null}] : n \in 0..MaxListLen}
    IN  [validator : {"is_color_code"}, value : Colors]
        \cup [validator : {"is_interval"}, value : Intervals]
        \cup [validator : {"is_list_of"}, etype : {"num", "str", "bool"},
              value : {List(items) : items \in Elems} \cup {Tuple(items) : items \in Elems}]

InitValidators ==
    /\ vizs = <<>>
    /\ row = None
    /\ args = <<>>
    /\ dashboard = None
    /\ receiver = None
    /\ input \in ValidatorInputs
    /\ output = None
    /\ op = "init"

\* output = validators.is_color_code(None, attribute, value)
IsColorCode ==
    /\ op = "init" /\ input.validator = "is_color_code"
    /\ output' = is_color_code(input.value)
    /\ op' = "is_color_code"
    /\ UNCHANGED <<vizs, row, args, dashboard, receiver, input>>

\* output = validators.is_interval(None, attribute, value)
IsInterval ==
    /\ op = "init" /\ input.validator = "is_interval"
    /\ output' = is_interval(input.value)
    /\ op' = "is_interval"
    /\ UNCHANGED <<vizs, row, args, dashboard, receiver, input>>

\* output = validators.is_list_of(etype)(None, attribute, value)
IsListOf ==
    /\ op = "init" /\ input.validator = "is_list_of"
    /\ output' = is_list_of(input.etype, input.value)
    /\ op' = "is_list_of"
    /\ UNCHANGED <<vizs, row, args, dashboard, receiver, input>>

SpecValidators == InitValidators /\ [][IsColorCode \/ IsInterval \/ IsListOf]_vars

(***************************************************************************)
(* SpecRow: a caller builds a Row from a list of the visualizations the    *)
(* library provides, those of core.py and zabbix.py's ZabbixTriggersPanel. *)
(***************************************************************************)
MaxRowLen == 2

\* ZabbixTriggersPanel(dataSource=.., title=.., id=.., span=..): the class
\* declares the panel's fields as its own attributes.
ZabbixTriggersPanel(dataSource, title, id, span) ==
    [type |-> "ZabbixTriggersPanel", dataSource |-> dataSource, title |-> title,
     description |-> "", height |-> DEFAULT_ROW_HEIGHT, id |-> id, links |-> <<>>,
     span |-> span, transparent |-> FALSE]

\* hasattr(v, name)
hasattr(v, name) == name \in DOMAIN v

\* Row(panels=vs): the converter reads v.panel of every element first.
Row_init(vs) ==
    IF \E k \in DOMAIN vs : ~hasattr(vs[k], "panel")
    THEN Raised("AttributeError", FALSE)
    ELSE Returned(Row(vs, None), FALSE)

RowInputs ==
    LET Spans == {None, Some(6)}
        Provided ==
            {Viz(ty, Panel("cpu", None, s)) : ty \in VizTypes, s \in Spans}
            \cup {ZabbixTriggersPanel("zabbix", "triggers", None, s) : s \in Spans}
    IN  UNION {[1..n -> Provided] : n \in 0..MaxRowLen}

InitRow ==
    /\ vizs = <<>>
    /\ row = None
    /\ args = <<>>
    /\ dashboard = None
    /\ receiver = None
    /\ input \in RowInputs
    /\ output = None
    /\ op = "init"

\* Row(panels=input)
ConstructRow ==
    /\ op = "init"
    /\ output' = Row_init(input)
    /\ op' = "Row"
    /\ UNCHANGED <<vizs, row, args, dashboard, receiver, input>>

SpecRow == InitRow /\ [][ConstructRow]_vars

(***************************************************************************)
(* SpecZabbix: a caller builds a ZabbixTarget, with the class or with      *)
(* zabbixServiceTarget, and renders it.                                    *)
(***************************************************************************)
\* ZabbixMode.METRICS, ZabbixMode.SERVICES, ZabbixMode.TEXT
ZabbixMode == [METRICS |-> Enum("ZabbixMode", Num(0)), SERVICES |-> Enum("ZabbixMode", Num(1)),
               TEXT |-> Enum("ZabbixMode", Num(2))]

ZABBIX_SLA_PROP_STATUS == Dict([name |-> Str("Status"), property |-> Str("status")])

\* ZabbixTarget(mode=.., itService=.., slaProperty=.., textFilter=..,
\* useCaptureGroups=..); the other fields have their defaults.
ZabbixTarget(mode, itService, slaProperty, textFilter, useCaptureGroups) ==
    [application |-> Str(""), expr |-> Str(""), functions |-> List(<<>>), group |-> Str(""),
     host |-> Str(""), intervalFactor |-> Num(2), item |-> Str(""), itService |-> itService,
     mode |-> mode, options |-> Obj("ZabbixTargetOptions", [showDisabledItems |-> Bool(FALSE)]),
     refId |-> Str(""), slaProperty |-> slaProperty, textFilter |-> textFilter,
     useCaptureGroups |-> useCaptureGroups]

zabbixServiceTarget(service, sla) ==
    ZabbixTarget(ZabbixMode.SERVICES, service,
                 IF sla = Null THEN ZABBIX_SLA_PROP_STATUS ELSE sla, Str(""), Bool(FALSE))

\* The target a call builds.
ZabbixTarget_of(c) ==
    IF c.fn = "zabbixServiceTarget" THEN zabbixServiceTarget(c.service, c.sla)
    ELSE ZabbixTarget(c.mode, c.itService, c.slaProperty, c.textFilter,
                      c.useCaptureGroups)

ZabbixTarget_to_json_data(t) ==
    LET ZabbixTargetField(filter) == Obj("ZabbixTargetField", [filter |-> filter])
        obj == [application |-> ZabbixTargetField(t.application), expr |-> t.expr,
                functions |-> t.functions, group |-> ZabbixTargetField(t.group),
                host |-> ZabbixTargetField(t.host), intervalFactor |-> t.intervalFactor,
                item |-> ZabbixTargetField(t.item), mode |-> t.mode, options |-> t.options,
                refId |-> t.refId]
        services ==
            IF t.mode = ZabbixMode.SERVICES
            THEN dict_update(obj, [slaProperty |-> Tuple(<<t.slaProperty>>),
                                   itservice |-> Dict([name |-> t.itService])])
            ELSE obj
    IN  IF t.mode = ZabbixMode.TEXT
        THEN dict_update(services, [textFilter |-> t.textFilter,
                                    useCaptureGroups |-> t.useCaptureGroups])
        ELSE services

ZabbixInputs ==
    LET Modes == {ZabbixMode.METRICS, ZabbixMode.SERVICES, ZabbixMode.TEXT}
        Services == {Str(""), Str("web")}
        Slas == {Dict(EmptyDict), ZABBIX_SLA_PROP_STATUS,
                 Dict([name |-> Str("SLA"), property |-> Str("sla")])}
    IN  [fn : {"ZabbixTarget"}, mode : Modes, itService : Services, slaProperty : Slas,
         textFilter : {Str(""), Str("err.*")}, useCaptureGroups : {Bool(FALSE), Bool(TRUE)}]
        \cup [fn : {"zabbixServiceTarget"}, service : Services, sla : {Null} \cup Slas]

InitZabbix ==
    /\ vizs = <<>>
    /\ row = None
    /\ args = <<>>
    /\ dashboard = None
    /\ receiver = None
    /\ input \in ZabbixInputs
    /\ output = None
    /\ op = "init"

\* receiver = the target built by the call; output = receiver.to_json_data()
RenderTarget ==
    /\ op = "init"
    /\ receiver' = Some(ZabbixTarget_of(input))
    /\ output' = Dict(ZabbixTarget_to_json_data(ZabbixTarget_of(input)))
    /\ op' = "to_json_data"
    /\ UNCHANGED <<vizs, row, args, dashboard, input>>

SpecZabbix == InitZabbix /\ [][RenderTarget]_vars

(***************************************************************************)
(* SpecConcurrent: two callers, each with its own visualization lists,     *)
(* build their rows and dashboard and run auto_panel_ids, their steps      *)
(* interleaved in any order.  input[c] holds the lists of caller c and     *)
(* output[c] the frame of its call: the rows built, the dashboard, the     *)
(* locals ids and auto_ids of auto_panel_ids (st), the rows mapped so far  *)
(* (out), the panels mapped so far in the current row, and the result.     *)
(***************************************************************************)
Callers == {"a", "b"}

\* The frame in which a caller's auto_panel_ids keeps ids and auto_ids: its
\* own.  A generator at module level would be that of one frame for all.
frame_of_first(c) == "a"
frame_of(c) == c

ConcurrentInputs ==
    LET g(i) == Viz("Graph", Panel("cpu", i, None))
        t == Viz("Text", Panel("mem", None, Some(8)))
        Lists == {<<>>, <<<<>>>>, <<<<g(None), g(Some(1))>>>>, <<<<g(None)>>, <<t, g(Some(2))>>>>,
                  <<<<g(Some(0)), t>>, <<g(None)>>>>}
    IN  [Callers -> Lists]

InitConcurrent ==
    /\ vizs = <<>>
    /\ row = None
    /\ args = <<>>
    /\ dashboard = None
    /\ receiver = None
    /\ input \in ConcurrentInputs
    /\ output = [c \in Callers |->
                    [pc |-> "rows", rows |-> <<>>, dashboard |-> None, st |-> NoState,
                     out |-> <<>>, panels |-> <<>>, result |-> None]]
    /\ op = "init"

\* Row(panels=...) for the caller's next list
BuildRow(c) ==
    /\ output[c].pc = "rows"
    /\ Len(output[c].rows) < Len(input[c])
    /\ output' = [output EXCEPT ![c].rows = Append(@, Row(input[c][Len(@) + 1], None))]
    /\ op' = "Row"
    /\ UNCHANGED <<vizs, row, args, dashboard, receiver, input>>

\* Dashboard(title="d", rows=rows)
BuildDashboard(c) ==
    /\ output[c].pc = "rows"
    /\ Len(output[c].rows) = Len(input[c])
    /\ output' = [output EXCEPT ![c].dashboard = Some(Dashboard("d", output[c].rows)),
                                ![c].pc = "auto_panel_ids"]
    /\ op' = "Dashboard"
    /\ UNCHANGED <<vizs, row, args, dashboard, receiver, input>>

\* auto_panel_ids begins: ids = {...}; auto_ids = (i for i in count(1) ...)
CollectIds(c) ==
    /\ output[c].pc = "auto_panel_ids"
    /\ LET all == Dashboard_iter_panels(Val(output[c].dashboard))
           ids == {Val(all[k].id) : k \in {j \in 1..Len(all) : Truthy(all[j].id)}}
       IN  output' = [output EXCEPT ![frame_of(c)].st = [ids |-> ids, count |-> 1],
                                    ![c].pc = "map_panels"]
    /\ op' = "ids"
    /\ UNCHANGED <<vizs, row, args, dashboard, receiver, input>>

\* Row.map_panels draws the next panel of the current row through set_id.
SetId(c) ==
    /\ output[c].pc = "map_panels"
    /\ Len(output[c].out) < Len(output[c].rows)
    /\ LET r == output[c].rows[Len(output[c].out) + 1]
       IN  /\ Len(output[c].panels) < Len(r.panels)
           /\ LET res == call("set_id", output[frame_of(c)].st,
                              r.panels[Len(output[c].panels) + 1].panel)
              IN  output' = [output EXCEPT ![frame_of(c)].st = res.st,
                                           ![c].panels = Append(@, res.panel)]
    /\ op' = "set_id"
    /\ UNCHANGED <<vizs, row, args, dashboard, receiver, input>>

\* Row.map_panels returns attr.evolve(self, panels=with_panels).
EvolveRow(c) ==
    /\ output[c].pc = "map_panels"
    /\ Len(output[c].out) < Len(output[c].rows)
    /\ LET r == output[c].rows[Len(output[c].out) + 1]
           with_panels == [k \in 1..Len(r.panels) |->
                              evolve_panel(r.panels[k], output[c].panels[k])]
       IN  /\ Len(output[c].panels) = Len(r.panels)
           /\ output' = [output EXCEPT ![c].out = Append(@, Row_evolve(r, with_panels)),
                                       ![c].panels = <<>>]
    /\ op' = "evolve"
    /\ UNCHANGED <<vizs, row, args, dashboard, receiver, input>>

\* Dashboard.map_panels returns attr.evolve(self, rows=[...]).
ReturnDashboard(c) ==
    /\ output[c].pc = "map_panels"
    /\ Len(output[c].out) = Len(output[c].rows)
    /\ output' = [output EXCEPT ![c].result =
                                   Some([Val(output[c].dashboard) EXCEPT !.rows = output[c].out]),
                                ![c].pc = "done"]
    /\ op' = "return"
    /\ UNCHANGED <<vizs, row, args, dashboard, receiver, input>>

NextConcurrent ==
    \E c \in Callers :
        \/ BuildRow(c)
        \/ BuildDashboard(c)
        \/ CollectIds(c)
        \/ SetId(c)
        \/ EvolveRow(c)
        \/ ReturnDashboard(c)

SpecConcurrent == InitConcurrent /\ [][NextConcurrent]_vars

(***************************************************************************)
(* Vocabulary of the properties, defined apart from the operators above.   *)
(***************************************************************************)
\* The spans and the panels a stand-alone Row was given and holds.
InPanel(k) == vizs[k].panel
OutPanel(k) == Val(row).panels[k].panel
AutoIn == {k \in 1..Len(vizs) : InPanel(k).span = None}
ExplicitIn == {k \in 1..Len(vizs) : InPanel(k).span # None}

\* The sum of w[k] over the k in S.
RECURSIVE SumOf(_, _)
SumOf(S, w) ==
    IF S = {} THEN 0
    ELSE LET k == CHOOSE x \in S : TRUE IN w[k] + SumOf(S \ {k}, w)

OutWidth(k) == Val(OutPanel(k).span)
ExplicitSum == SumOf(ExplicitIn, [k \in ExplicitIn |-> Val(InPanel(k).span)])
OutSum == SumOf(1..Len(Val(row).panels), [k \in 1..Len(Val(row).panels) |-> OutWidth(k)])

\* The least integer q with q * n >= x, for n >= 1.
Ceiling(x, n) ==
    CHOOSE q \in -(TOTAL_SPAN * (MaxBalLen + 1))..TOTAL_SPAN :
        q * n >= x /\ (q - 1) * n < x

InSpans == [k \in 1..Len(vizs) |-> InPanel(k).span]
OutSpans == [k \in 1..Len(Val(row).panels) |-> OutWidth(k)]

\* Positions of the panels of a dashboard, and their row-major order.
Positions(d) ==
    UNION {{<<r, k>> : k \in 1..Len(d.rows[r].panels)} : r \in 1..Len(d.rows)}
PanelAt(d, p) == d.rows[p[1]].panels[p[2]].panel
NotAfter(p, q) == p[1] < q[1] \/ (p[1] = q[1] /\ p[2] <= q[2])

Assigned(d, p) == PanelAt(d, p).id # None /\ Val(PanelAt(d, p).id) # 0
Unassigned(d) == {p \in Positions(d) : ~Assigned(d, p)}
UsedIds(d) == {Val(PanelAt(d, p).id) : p \in {q \in Positions(d) : Assigned(d, q)}}

SameShape(d, e) ==
    /\ Len(d.rows) = Len(e.rows)
    /\ \A r \in 1..Len(d.rows) : Len(d.rows[r].panels) = Len(e.rows[r].panels)

\* The i-th smallest positive integer outside S.
NthFree(S, i) ==
    CHOOSE m \in 1..(i + Cardinality(S)) :
        m \notin S /\ Cardinality({j \in 1..m : j \notin S}) = i

\* The ids of the panels of row r, in order.
RowIds(d, r) == [k \in 1..Len(d.rows[r].panels) |-> d.rows[r].panels[k].panel.id]

\* A dashboard with every panel id blanked.
StripIds(d) ==
    [d EXCEPT !.rows = [r \in 1..Len(@) |->
        [@[r] EXCEPT !.panels = [k \in 1..Len(@) |->
            [@[k] EXCEPT !.panel.id = None]]]]]

Called == {"auto_panel_ids", "retitle", "clear_span", "evolve"}

(***************************************************************************)
(* Properties of Row construction, checked under SpecBalance.              *)
(***************************************************************************)
\* C1: when a Row is built from panels whose spans are None or in 1..12 and
\* n >= 1 of them are None, every None-span panel gets the width
\* ceil((12 - sum of the explicit spans) / n); [None,None,None] becomes
\* [4,4,4], [6,None,None] becomes [6,3,3] and [5,None,None] becomes [5,4,4].
C1_AutoWidth ==
    (op = "Row" /\ AutoIn # {}) =>
        /\ \A k \in AutoIn :
              OutPanel(k).span = Some(Ceiling(TOTAL_SPAN - ExplicitSum, Cardinality(AutoIn)))
        /\ InSpans = <<None, None, None>> => OutSpans = <<4, 4, 4>>
        /\ InSpans = <<Some(6), None, None>> => OutSpans = <<6, 3, 3>>
        /\ InSpans = <<Some(5), None, None>> => OutSpans = <<5, 4, 4>>

\* A Row was built from spans [5, None, None]: the remainder 7 does not divide by 2.
C1_Witness == op = "Row" /\ InSpans = <<Some(5), None, None>> /\ OutSpans = <<5, 4, 4>>

\* C2 as stated: after Row construction the widths always sum to exactly 12.
C2_SumAlways12 == op = "Row" => OutSum = TOTAL_SPAN

\* C2, amended: after Row construction the widths sum to exactly 12 whenever
\* the row has n >= 1 auto panels and 12 minus the sum of the explicit widths
\* is divisible by n.
C2_SumWhenDivisible ==
    (op = "Row" /\ AutoIn # {} /\ (TOTAL_SPAN - ExplicitSum) % Cardinality(AutoIn) = 0) =>
        OutSum = TOTAL_SPAN

\* A Row was built from spans [6, None, None]: 6 divides by 2 and the row sums to 12.
C2_Witness ==
    op = "Row" /\ InSpans = <<Some(6), None, None>> /\ OutSum = TOTAL_SPAN

\* C4: the balanced list has the length and order of the given one; a
\* panel given with a span is returned equal in every field, a panel given
\* without one differs from the given panel in span only, and the
\* visualization around each panel is otherwise the one given.  A row whose
\* panels all have a span keeps every width, whatever their sum.
C4_BalanceFrame ==
    op = "Row" =>
        /\ Len(Val(row).panels) = Len(vizs)
        /\ \A k \in 1..Len(vizs) :
              /\ Val(row).panels[k] = [vizs[k] EXCEPT !.panel = OutPanel(k)]
              /\ InPanel(k).span # None => OutPanel(k) = InPanel(k)
              /\ InPanel(k).span = None =>
                    /\ OutPanel(k).span # None
                    /\ [OutPanel(k) EXCEPT !.span = None] = InPanel(k)
        /\ AutoIn = {} => Val(row).panels = vizs

\* A Row was built from an auto panel between two explicit panels that hold
\* an id, and from explicit widths that do not leave 12 to share.
C4_Witness ==
    /\ op = "Row"
    /\ InSpans = <<Some(7), None, Some(7)>>
    /\ InPanel(1).id = Some(5)
    /\ InPanel(2).id = Some(5)
    /\ OutSpans = <<7, -2, 7>>

(***************************************************************************)
(* Properties of the rows of a Dashboard and of auto_panel_ids, checked    *)
(* under Spec.                                                             *)
(***************************************************************************)
D == Val(dashboard)
R == Val(receiver)

\* C3: every panel of every Row of the dashboard has a concrete span (an
\* integer, never None): after construction from any lists of
\* visualizations, the empty list included, and after every map_panels,
\* auto_panel_ids and attr.evolve rebuild.
C3_SpansConcrete ==
    dashboard # None =>
        \A p \in Positions(D) : PanelAt(D, p).span # None /\ Val(PanelAt(D, p).span) \in Int

\* map_panels with a callable that unsets the span has run over a dashboard
\* that holds an empty row and a row built from a panel without a span.
C3_Witness ==
    /\ op = "clear_span"
    /\ Len(args) = 2 /\ args[1] = <<>> /\ Len(args[2]) = 2
    /\ args[2][1].panel.span = None
    /\ \A p \in Positions(D) : PanelAt(D, p).span = Some(6)

\* C5: after auto_panel_ids every panel of every row has an id that is a
\* positive integer; a panel whose id was None or 0 has received one, and
\* the only panel of a dashboard, if it had no id, has id 1.
C5_AllAssigned ==
    op = "auto_panel_ids" =>
        /\ \A p \in Positions(D) :
              /\ PanelAt(D, p).id # None
              /\ Val(PanelAt(D, p).id) \in Nat \ {0}
        /\ (Cardinality(Positions(R)) = 1 /\ Unassigned(R) # {}) =>
              \A p \in Positions(D) : PanelAt(D, p).id = Some(1)

\* auto_panel_ids has run over a dashboard with a panel of id None and a
\* panel of id 0.
C5_Witness ==
    /\ op = "auto_panel_ids"
    /\ \E p, q \in Positions(R) : PanelAt(R, p).id = None /\ PanelAt(R, q).id = Some(0)
    /\ Unassigned(D) = {}

\* C6: a panel that has an id keeps it through every call of
\* auto_panel_ids, every map_panels the caller makes with these callables
\* and every rebuild of the rows: the dashboard a call returns holds, at
\* the same place, the id the receiver held there.
C6_IdsKept ==
    op \in Called =>
        /\ SameShape(R, D)
        /\ \A p \in Positions(R) : Assigned(R, p) => PanelAt(D, p).id = PanelAt(R, p).id

\* auto_panel_ids has run a second time: the receiver holds ids the first
\* call generated next to an id the caller gave.
C6_Witness ==
    /\ op = "auto_panel_ids"
    /\ Len(args) = 1 /\ [k \in 1..Len(args[1]) |-> args[1][k].panel.id] = <<None, Some(2), None>>
    /\ RowIds(R, 1) = <<Some(1), Some(2), Some(3)>>
    /\ RowIds(D, 1) = <<Some(1), Some(2), Some(3)>>

\* C7: auto_panel_ids gives the i-th panel without an id, counted over the
\* rows in order and the panels of a row in order, the i-th smallest
\* positive integer that is no id of the dashboard; ids [5, None, None]
\* become [5, 1, 2], and two rows of one panel without id get 1 and 2.
C7_SmallestUnused ==
    op = "auto_panel_ids" =>
        /\ SameShape(R, D)
        /\ \A p \in Unassigned(R) :
              PanelAt(D, p).id =
                  Some(NthFree(UsedIds(R), Cardinality({q \in Unassigned(R) : NotAfter(q, p)})))
        /\ (Len(R.rows) = 1 /\ RowIds(R, 1) = <<Some(5), None, None>>) =>
              RowIds(D, 1) = <<Some(5), Some(1), Some(2)>>
        /\ (Len(R.rows) = 2 /\ RowIds(R, 1) = <<None>> /\ RowIds(R, 2) = <<None>>) =>
              RowIds(D, 1) = <<Some(1)>> /\ RowIds(D, 2) = <<Some(2)>>

\* auto_panel_ids has run over two rows: an id 2 in the first row is
\* skipped by the ids generated for the second.
C7_Witness ==
    /\ op = "auto_panel_ids"
    /\ Len(R.rows) = 2
    /\ RowIds(R, 1) = <<Some(0), Some(2)>> /\ RowIds(R, 2) = <<None>>
    /\ RowIds(D, 1) = <<Some(1), Some(2)>> /\ RowIds(D, 2) = <<Some(3)>>

\* C8: auto_panel_ids is idempotent: applied to a dashboard that
\* auto_panel_ids returned, it returns an equal dashboard.
C8_Idempotent == op = "auto_panel_ids" => auto_panel_ids(D) = D

\* auto_panel_ids has returned a dashboard that differs from its receiver,
\* which held ids and lacked ids.
C8_Witness ==
    /\ op = "auto_panel_ids"
    /\ D # R
    /\ Unassigned(R) # {} /\ UsedIds(R) # {}

\* C9: an id that auto_panel_ids generates differs from the id of every
\* other panel of the returned dashboard, in every row; so if the ids the
\* receiver held were pairwise distinct, so are all ids of the result.
C9_GeneratedUnique ==
    op = "auto_panel_ids" =>
        /\ \A p \in Unassigned(R) : \A q \in Positions(D) :
              q # p => PanelAt(D, q).id # PanelAt(D, p).id
        /\ (\A p, q \in Positions(R) :
               (Assigned(R, p) /\ Assigned(R, q) /\ p # q) => PanelAt(R, p).id # PanelAt(R, q).id)
           => \A p, q \in Positions(D) : p # q => PanelAt(D, p).id # PanelAt(D, q).id

\* auto_panel_ids has generated ids for two panels in different rows of a
\* dashboard that held an id.
C9_Witness ==
    /\ op = "auto_panel_ids"
    /\ UsedIds(R) # {}
    /\ \E p, q \in Unassigned(R) : p[1] # q[1]

\* C10: the dashboard auto_panel_ids returns has the rows of the receiver,
\* each with as many panels in the same order, and equals the receiver in
\* every field of the dashboard, its rows, visualizations and panels other
\* than the panel ids; every span is the receiver's, though each Row was
\* rebuilt and balanced again.
C10_OnlyIdsChange ==
    op = "auto_panel_ids" =>
        /\ SameShape(R, D)
        /\ StripIds(D) = StripIds(R)
        /\ \A p \in Positions(R) : PanelAt(D, p).span = PanelAt(R, p).span

\* auto_panel_ids has given an id to a panel of span 8 whose row does not
\* sum to 12, and the receiver still lacks that id.
C10_Witness ==
    /\ op = "auto_panel_ids"
    /\ Len(R.rows) = 1 /\ Len(R.rows[1].panels) = 1
    /\ PanelAt(R, <<1, 1>>).id = None /\ PanelAt(R, <<1, 1>>).span = Some(8)
    /\ PanelAt(D, <<1, 1>>).id = Some(1) /\ PanelAt(D, <<1, 1>>).span = Some(8)

(***************************************************************************)
(* Properties of union, checked under SpecUnion.                           *)
(***************************************************************************)
\* The maps of the input that hold key k.
Holders(k) == {i \in 1..Len(input) : k \in DOMAIN input[i]}
Last(S) == CHOOSE i \in S : \A j \in S : j <= i

\* C11: union is a right-biased shallow merge: the keys of the result are
\* the keys of all the maps, and each key has the whole value it has in
\* the last map that holds it, be it null or a nested map; union([]) is
\* the empty map.
C11_UnionRightBiased ==
    op = "union" =>
        /\ DOMAIN output = UNION {DOMAIN input[i] : i \in 1..Len(input)}
        /\ \A k \in DOMAIN output : output[k] = input[Last(Holders(k))][k]
        /\ input = <<>> => DOMAIN output = {}

\* union has merged two maps whose nested maps under x differ and whose
\* second map holds null under y, where the first holds a number.
C11_Witness ==
    /\ op = "union"
    /\ input = << [x |-> Dict([a |-> Num(1)]), y |-> Num(1)],
                  [x |-> Dict([b |-> Num(2)]), y |-> Null] >>
    /\ output = [x |-> Dict([b |-> Num(2)]), y |-> Null]

(***************************************************************************)
(* Rendering.                                                              *)
(***************************************************************************)
PanelKeys ==
    {"title", "id", "links", "span", "transparent", "editable", "height", "description"}

\* The visualization's own fields, Graph's alert block included.
OwnFields(v) ==
    CASE v.type = "Graph" -> union(<<graph_object(v), graph_alerts(v)>>)
      [] v.type = "Text" -> Text_object(v)
      [] v.type = "AlertList" -> AlertList_object(v)
      [] v.type = "SingleStat" -> SingleStat_object(v)
      [] v.type = "Table" -> Table_object(v)

Rendered(cls) == op = "to_json_data" /\ input.cls \in cls

\* C12: the rendered document of a Graph, Text, AlertList, SingleStat or Table
\* has the eight panel keys with the panel's values and the visualization's
\* own keys with the visualization's values, and the two key sets are disjoint.
C12_PanelKeysDisjoint ==
    Rendered(VizTypes) =>
        LET v == input.fields
            panel == Panel_to_json_data(v.panel)
            own == OwnFields(v)
        IN  /\ DOMAIN panel = PanelKeys
            /\ DOMAIN panel \cap DOMAIN own = {}
            /\ DOMAIN output.m = DOMAIN panel \cup DOMAIN own
            /\ \A k \in DOMAIN panel : output.m[k] = panel[k]
            /\ \A k \in DOMAIN own : output.m[k] = own[k]

C12_Witness ==
    /\ Rendered({"Graph"})
    /\ "alert" \in DOMAIN output.m
    /\ output.m.span = Num(4)
    /\ output.m.id = Num(1)

\* A document: maps, ordered sequences, strings, numbers, booleans and null.
RECURSIVE IsPlain(_)
IsPlain(v) ==
    CASE v.t = "list" -> \A k \in DOMAIN v.items : IsPlain(v.items[k])
      [] v.t = "dict" -> \A k \in DOMAIN v.m : IsPlain(v.m[k])
      [] v.t \in {"null", "bool", "num", "str"} -> TRUE
      [] OTHER -> FALSE

XAxisFields == {"mode", "name", "values", "show"}

\* C14 as stated: the rendered map has an entry for every declared field of
\* the instance, whatever the field values: every attribute of an XAxis, and
\* a Graph's alert also when it is None.
C14_AllFieldsEmitted ==
    /\ Rendered({"XAxis"}) =>
          /\ DOMAIN input.fields = XAxisFields
          /\ \A f \in XAxisFields : f \in DOMAIN output.m
    /\ Rendered({"Graph"}) => "alert" \in DOMAIN output.m

(***************************************************************************)
(* End to end.                                                             *)
(***************************************************************************)
\* One row of two visualizations: the first of span 8, the second of no span.
EndToEndArgs ==
    <<<<Viz("Text", Panel("mem", None, Some(8))), Viz("Graph", Panel("cpu", None, None))>>>>
EndToEndFresh == Dashboard("d", <<Row(EndToEndArgs[1], None)>>)

SpansOfRow(r) == [k \in DOMAIN r.panels |-> r.panels[k].panel.span]
IdsOfRow(r) == [k \in DOMAIN r.panels |-> r.panels[k].panel.id]
\* The rendered documents of the row's panel entries.
PanelDocs(r) ==
    LET entries == Row_to_json_data(r).panels.items
    IN  [k \in DOMAIN entries |-> to_json_data(entries[k]).m]

\* C15: the dashboard of one row of two visualizations of spans 8 and None has
\* the spans 8, 4 once it is constructed; auto_panel_ids on it gives the ids
\* 1, 2 and keeps the spans 8, 4, and the rendered panel entries of the row
\* carry span 8 / id 1 and span 4 / id 2 in that order.
C15_EndToEnd ==
    /\ (args = EndToEndArgs /\ op = "Dashboard") =>
          /\ Len(D.rows) = 1
          /\ SpansOfRow(D.rows[1]) = <<Some(8), Some(4)>>
          /\ IdsOfRow(D.rows[1]) = <<None, None>>
    /\ (op = "auto_panel_ids" /\ R = EndToEndFresh) =>
          /\ SpansOfRow(D.rows[1]) = <<Some(8), Some(4)>>
          /\ IdsOfRow(D.rows[1]) = <<Some(1), Some(2)>>
          /\ LET docs == PanelDocs(D.rows[1])
             IN  /\ Len(docs) = 2
                 /\ docs[1].span = Num(8) /\ docs[1].id = Num(1)
                 /\ docs[2].span = Num(4) /\ docs[2].id = Num(2)
                 /\ docs[1].title = Str("mem") /\ docs[2].title = Str("cpu")

C15_Witness ==
    /\ args = EndToEndArgs
    /\ op = "auto_panel_ids"
    /\ R = EndToEndFresh
    /\ IdsOfRow(D.rows[1]) = <<Some(1), Some(2)>>

(***************************************************************************)
(* The Y axes of a Graph.                                                  *)
(***************************************************************************)
IsPair(data) == data.t \in {"list", "tuple"} /\ Len(data.items) = 2
IsAxisPair(data) ==
    IsPair(data) /\ \A k \in 1..2 : data.items[k].t = "object" /\ data.items[k].cls = "YAxis"
IsYAxesValue(data) == data.t = "object" /\ data.cls = "YAxes"
Constructed == output.raised = "" /\ output.value # None
PassedThrough ==
    Constructed /\ Val(output.value).yAxes = input /\ ~output.warned
Converted ==
    /\ Constructed
    /\ Val(output.value).yAxes = YAxes(input.items[1], input.items[2])
    /\ output.warned
Refused(exc) == output.raised = exc /\ output.value = None

\* C18 as stated: a YAxes value passes unchanged without warning, every list
\* or tuple of two elements is converted to YAxes(first, second) with a
\* warning, and every other input raises ValueError.
C18_AnyPairConverted ==
    op = "Graph" =>
        /\ IsYAxesValue(input) => PassedThrough
        /\ IsPair(input) => Converted
        /\ (~IsYAxesValue(input) /\ ~IsPair(input)) => Refused("ValueError")

\* C18: a YAxes value passes unchanged without warning; a list or tuple of
\* two YAxis values is converted to YAxes(first, second) with a warning; a
\* list or tuple of two elements one of which is no YAxis gets the warning
\* and then raises TypeError; every other input raises ValueError without a
\* warning; whenever an exception is raised, no Graph is constructed.
C18_AxisPairConverted ==
    op = "Graph" =>
        /\ IsYAxesValue(input) => PassedThrough
        /\ IsAxisPair(input) => Converted
        /\ (IsPair(input) /\ ~IsAxisPair(input)) => (Refused("TypeError") /\ output.warned)
        /\ (~IsYAxesValue(input) /\ ~IsPair(input)) =>
              (Refused("ValueError") /\ ~output.warned)

C18_Witness ==
    /\ op = "Graph"
    /\ input.t = "tuple"
    /\ IsAxisPair(input)
    /\ input.items[1] # input.items[2]
    /\ Converted

(***************************************************************************)
(* Tables with styled columns.                                             *)
(***************************************************************************)
PairColumn(pair) == pair[1]
PairStyle(pair) == pair[2]
HasStyle(pair) == PairStyle(pair) # Null
Mismatch(pair) ==
    /\ HasStyle(pair)
    /\ PairStyle(pair).fields.pattern # ""
    /\ PairStyle(pair).fields.pattern # PairColumn(pair).fields.text
\* The style of the pair, its pattern set to the text of the column.
Patterned(pair) ==
    [PairStyle(pair) EXCEPT !.fields.pattern = PairColumn(pair).fields.text]
ExtraStyles == IF input.styles = Null THEN <<>> ELSE input.styles.items
ExpectedStyles ==
    LET styled == SelectSeq(input.columns, HasStyle)
    IN  [k \in 1..Len(styled) |-> Patterned(styled[k])] \o ExtraStyles

\* C20: with_styled_columns raises ValueError if some pair has a style of a
\* non-empty pattern that differs from the text of its column; otherwise it
\* builds the Table of the given columns in order whose styles are the styles
\* of the pairs that have one, in order, each with the text of its column as
\* pattern, followed by the extra styles.
C20_StyledColumns ==
    op = "with_styled_columns" =>
        IF \E k \in DOMAIN input.columns : Mismatch(input.columns[k])
        THEN output.raised = "ValueError" /\ output.value = None
        ELSE /\ output.raised = ""
             /\ Val(output.value).type = "Table"
             /\ Val(output.value).columns =
                   [k \in DOMAIN input.columns |-> PairColumn(input.columns[k])]
             /\ Val(output.value).styles = ExpectedStyles

C20_Witness ==
    /\ op = "with_styled_columns"
    /\ Len(input.columns) = 2
    /\ HasStyle(input.columns[1]) /\ PairStyle(input.columns[1]).fields.pattern = ""
    /\ ~HasStyle(input.columns[2])
    /\ ExtraStyles # <<>>
    /\ output.raised = ""
    /\ Len(Val(output.value).styles) = 2
    /\ Val(output.value).styles[1].fields.pattern = PairColumn(input.columns[1]).fields.text

(***************************************************************************)
(* The title of a row.                                                     *)
(***************************************************************************)
RowIn == input.fields

\* C19: the rendered title of a row is "New row" if the title is None and the
\* title otherwise; the rendered showTitle is the row's showTitle if that is
\* not None and otherwise tells whether the title is not None.
C19_RowTitle ==
    Rendered({"Row"}) =>
        /\ RowIn.title = None => output.m.title = Str("New row")
        /\ RowIn.title # None => output.m.title = Str(Val(RowIn.title))
        /\ RowIn.showTitle # None => output.m.showTitle = Bool(Val(RowIn.showTitle))
        /\ RowIn.showTitle = None => output.m.showTitle = Bool(RowIn.title # None)

C19_Witness ==
    /\ Rendered({"Row"})
    /\ RowIn.title = Some("My title")
    /\ RowIn.showTitle = Some(FALSE)
    /\ output.m.title = Str("My title")
    /\ output.m.showTitle = Bool(FALSE)

(***************************************************************************)
(* Immutability.                                                           *)
(***************************************************************************)
\* C16 as stated: an assignment to a field of any constructed value object
\* fails and leaves the object unchanged.
C16_AllImmutable ==
    op = "setattr" => (output.raised # "" /\ output.object = input.object)

(***************************************************************************)
(* Rows and dashboards without work to do.                                 *)
(***************************************************************************)
PanelsOf(vs) == [k \in DOMAIN vs |-> vs[k].panel]
NoAutoPanel(vs) == \A k \in DOMAIN vs : vs[k].panel.span # None
\* The number the balancer divides by for the list vs.
Divisor(vs) == len_or_one(no_span_set(PanelsOf(vs)))

\* C17: the balancer never divides by zero, and a row constructed from an
\* empty list or from a list without auto panels holds the list unchanged;
\* auto_panel_ids on a dashboard without panels returns an equal dashboard.
C17_NothingToDo ==
    /\ op = "Dashboard" =>
          \A k \in DOMAIN args :
              /\ Divisor(args[k]) >= 1
              /\ NoAutoPanel(args[k]) => D.rows[k].panels = args[k]
    /\ (op = "auto_panel_ids" /\ Positions(R) = {}) => D = R

C17_Witness ==
    /\ op = "auto_panel_ids"
    /\ Len(R.rows) = 2
    /\ Positions(R) = {}
    /\ D = R

(***************************************************************************)
(* The validators.                                                         *)
(***************************************************************************)
Accepted == output.raised = "" /\ output.value = Some(Null)
Rejected == output.raised = "ValueError" /\ output.value = None

\* "#" followed by exactly six hexadecimal digits
SixHexDigits(value) ==
    /\ Len(value) = 7
    /\ value[1] = "#"
    /\ \A i \in 2..7 : value[i] \in HexDigits

\* C21 as stated: is_color_code returns None exactly for "#" followed by six
\* hexadecimal digits and raises ValueError for every other string.
C21_ExactlySixHexDigits ==
    op = "is_color_code" =>
        /\ SixHexDigits(input.value) <=> Accepted
        /\ ~SixHexDigits(input.value) <=> Rejected

\* An optional sign, digits, one unit letter and nothing else
IntervalShape(value) ==
    LET body == IF value # <<>> /\ value[1] \in {"+", "-"} THEN Tail(value) ELSE value
    IN  /\ body # <<>>
        /\ body[Len(body)] \in {"s", "m", "h", "d", "M", "Y"}
        /\ \A i \in 1..(Len(body) - 1) : body[i] \in Digits

\* C22 as stated: is_interval returns None exactly for the strings made of an
\* optional sign, digits and one unit letter, and raises ValueError for every
\* other string.
C22_ExactIntervals ==
    op = "is_interval" =>
        /\ IntervalShape(input.value) <=> Accepted
        /\ ~IntervalShape(input.value) <=> Rejected

\* C23: the validator of is_list_of(etype) raises ValueError exactly when some
\* element of the sequence is no instance of etype, and returns None
\* otherwise, for the empty sequence too.
C23_ListOf ==
    op = "is_list_of" =>
        LET items == input.value.items
            Foreign == {k \in DOMAIN items : ~isinstance_of(items[k], input.etype)}
        IN  /\ Foreign # {} <=> Rejected
            /\ Foreign = {} <=> Accepted
            /\ items = <<>> => Accepted

C23_Witness ==
    /\ op = "is_list_of"
    /\ input.value.items = <<>>
    /\ input.value.t = "tuple"
    /\ Accepted

(***************************************************************************)
(* More properties of the balancer, checked under SpecBalance.             *)
(***************************************************************************)
\* C25: a row built with n >= 1 auto panels has a total width of at least 12
\* and of at most 12 + n - 1, and the total is 12 exactly when 12 minus the
\* sum of the explicit widths is divisible by n.
C25_OverflowBound ==
    (op = "Row" /\ AutoIn # {}) =>
        LET n == Cardinality(AutoIn)
        IN  /\ OutSum >= TOTAL_SPAN
            /\ OutSum <= TOTAL_SPAN + n - 1
            /\ OutSum = TOTAL_SPAN <=> (TOTAL_SPAN - ExplicitSum) % n = 0

\* A Row was built from spans [11, None, None]: the remainder 1 is shared by
\* two auto panels and the total exceeds 12 by n - 1 = 1.
C25_Witness ==
    /\ op = "Row"
    /\ InSpans = <<Some(11), None, None>>
    /\ OutSum = TOTAL_SPAN + Cardinality(AutoIn) - 1

\* C26 as stated: every width of a row built from explicit widths in 1..12
\* is at least 1, also when the explicit widths sum to 12 or more and auto
\* panels remain.
C26_WidthsAtLeastOne ==
    (op = "Row" /\ \A k \in ExplicitIn : Val(InPanel(k).span) \in 1..TOTAL_SPAN) =>
        \A k \in 1..Len(Val(row).panels) : OutWidth(k) >= 1

\* C29: the balancer returns its own output unchanged, and rebuilding a Row
\* with attr.evolve leaves every panel width as it was, whatever the widths
\* sum to.
C29_RebuildKeepsWidths ==
    [][row # None =>
          /\ _balance_panels(PanelsOf(Val(row).panels)) = PanelsOf(Val(row).panels)
          /\ op' = "evolve"
          /\ OutSpans' = OutSpans]_vars

\* A Row with the widths [11, 1, 1], which sum to 13, was rebuilt.
C29_Witness ==
    /\ op = "evolve"
    /\ InSpans = <<Some(11), None, None>>
    /\ OutSpans = <<11, 1, 1>>

(***************************************************************************)
(* The alert block of a Graph, checked under SpecRender.                   *)
(***************************************************************************)
\* The graph without its alert argument
WithoutAlert(v) == [k \in DOMAIN v \ {"alert"} |-> v[k]]

\* C27: the rendered Graph has the key "alert", with the graph's alert as
\* value, if and only if the graph's alert is set (it holds a true value: an
\* Alert, not None and not an empty value); without an alert the key is
\* absent, not null, and every other key is as in the rendering of the same
\* graph built without alert.
C27_AlertConditional ==
    Rendered({"Graph"}) =>
        LET v == input.fields
            alert == Field(v, "alert", Null)
            plain == to_json_data(Obj("Graph", WithoutAlert(v))).m
        IN  /\ "alert" \in DOMAIN output.m <=> truth(alert)
            /\ "alert" \in DOMAIN output.m => output.m.alert = alert /\ alert # Null
            /\ "alert" \notin DOMAIN plain
            /\ DOMAIN output.m \ {"alert"} = DOMAIN plain
            /\ \A k \in DOMAIN plain : output.m[k] = plain[k]

\* A Graph built with alert=None was rendered and its document has no alert key.
C27_Witness ==
    /\ Rendered({"Graph"})
    /\ "alert" \in DOMAIN input.fields
    /\ input.fields.alert = Null
    /\ "alert" \notin DOMAIN output.m
    /\ "yaxes" \in DOMAIN output.m

(***************************************************************************)
(* Rows of any of the library's visualizations, checked under SpecRow.     *)
(***************************************************************************)
\* C28 as stated: every visualization of the library, a ZabbixTriggersPanel
\* too, exposes a Panel as its panel attribute, and a Row is constructed
\* from any list of them without raising.
C28_RowFromAnyVisualization ==
    op = "Row" =>
        /\ \A k \in DOMAIN input : hasattr(input[k], "panel")
        /\ output.raised = ""
        /\ output.value # None

(***************************************************************************)
(* The rendering of a ZabbixTarget, checked under SpecZabbix.              *)
(***************************************************************************)
ModeKeys == {"slaProperty", "itservice", "textFilter", "useCaptureGroups"}

\* C30 as stated: in SERVICES mode the rendered target has slaProperty equal
\* to the SLA-property map of the target (ZABBIX_SLA_PROP_STATUS when
\* zabbixServiceTarget was given none) and itservice equal to
\* {name: itService}; in TEXT mode it has textFilter and useCaptureGroups; in
\* METRICS mode it has none of these four keys.
C30_ByMode ==
    op = "to_json_data" =>
        LET t == Val(receiver)
            m == output.m
        IN  /\ t.mode = ZabbixMode.SERVICES =>
                  /\ {"slaProperty", "itservice"} \subseteq DOMAIN m
                  /\ m.slaProperty = t.slaProperty
                  /\ m.itservice = Dict([name |-> t.itService])
                  /\ (input.fn = "zabbixServiceTarget" /\ input.sla = Null) =>
                        m.slaProperty = ZABBIX_SLA_PROP_STATUS
            /\ t.mode = ZabbixMode.TEXT =>
                  /\ {"textFilter", "useCaptureGroups"} \subseteq DOMAIN m
                  /\ m.textFilter = t.textFilter
                  /\ m.useCaptureGroups = t.useCaptureGroups
            /\ t.mode = ZabbixMode.METRICS => DOMAIN m \cap ModeKeys = {}

(***************************************************************************)
(* Two callers on independent dashboards, checked under SpecConcurrent.    *)
(***************************************************************************)
\* What caller c obtains when it runs alone
Alone(c) == auto_panel_ids(Dashboard("d", [k \in 1..Len(input[c]) |-> Row(input[c][k], None)]))

\* The panels of the first n visualizations of row r
PanelsUpTo(r, n) == [k \in 1..n |-> r.panels[k].panel]

\* C24: however the steps of the two callers interleave, each caller obtains
\* the dashboard it obtains when running alone, and at every step of its
\* auto_panel_ids the rows and panels it has mapped so far are those of the
\* run alone.
C24_Independent ==
    \A c \in Callers :
        LET f == output[c]
        IN  /\ f.pc = "done" => f.result = Some(Alone(c))
            /\ f.pc = "map_panels" =>
                  /\ f.out = SubSeq(Alone(c).rows, 1, Len(f.out))
                  /\ Len(f.out) < Len(f.rows) =>
                        f.panels = PanelsUpTo(Alone(c).rows[Len(f.out) + 1], Len(f.panels))

\* Both callers are inside auto_panel_ids at once on different dashboards;
\* caller b has drawn one id from its generator and caller a two from its own.
C24_Witness ==
    /\ output.a.pc = "map_panels"
    /\ output.b.pc = "map_panels"
    /\ output.a.st.count = 3
    /\ output.b.st.count = 2
    /\ output.b.panels # <<>>
    /\ output.a.out # <<>>
    /\ input.a # input.b

=============================================================================
